---- MODULE Spec2Model ----
(***************************************************************************)
(* Model of two components of DeepPavlov:                                  *)
(*   ChitChatReRanker.__call__      (models/ranking/chitchat_reranker.py)  *)
(*   CosineSimilarityClassifier     (models/classifiers/                   *)
(*                                   cos_sim_classifier.py)                *)
(* Python lists are TLA+ sequences; Python's 0-based index k is element    *)
(* k + 1 of the sequence.  Index lists hold the 0-based Python indices.    *)
(***************************************************************************)
EXTENDS Integers, Sequences, FiniteSets, TLC

(***************************************************************************)
(* Bounds of the model.                                                    *)
(***************************************************************************)
MaxContextTurns == 2
MaxCands == 2
MaxBatch == 4
MotifLen == 3
MaxTrain == 3
MaxQueries == 2
MaxTopN == 2
MaxFitLen == 2

(***************************************************************************)
(* Generic list helpers.                                                   *)
(***************************************************************************)
Range(s) == {s[k] : k \in 1..Len(s)}

\* Python s[a:b] for 0 <= a (clipped to the length of s).
Slice(s, a, b) ==
    LET hi == IF b < Len(s) THEN b ELSE Len(s)
    IN  IF a >= hi THEN << >> ELSE [k \in 1..(hi - a) |-> s[a + k]]

\* Python range(n) filtered by a predicate set: the members of S in ascending order.
RECURSIVE AscList(_)
AscList(S) ==
    IF S = {} THEN << >>
    ELSE LET m == CHOOSE x \in S : \A y \in S : x <= y
         IN  <<m>> \o AscList(S \ {m})

RECURSIVE SumSeq(_)
SumSeq(s) == IF s = << >> THEN 0 ELSE Head(s) + SumSeq(Tail(s))

(***************************************************************************)
(* ChitChatReRanker                                                        *)
(***************************************************************************)
VARIABLES
    num_context_turns,      \* self.num_context_turns
    top_responses_batch,    \* argument: list of candidate lists
    top_scores_batch,       \* argument: parallel list of score lists
    sentiment_batch,        \* argument: flat list of sentiment tags
    intents_batch,          \* argument: flat list of intent tags
    pc,                     \* "call", "loop", "done", "error"
    err,                    \* the exception raised, "" when none
    reshaped_sentiment,
    reshaped_intents,
    i,                      \* element whose loop body ran last (-1: none yet)
    last_utter_intent,
    responses_intents,
    filtered_intents_idx,
    last_utter_sentiment,
    responses_sentiment,
    filtered_sentiment_idx,
    idx,
    candidates,
    scores,
    chosen_index,
    responses_batch,
    responses_preds

rrIn == <<num_context_turns, top_responses_batch, top_scores_batch,
          sentiment_batch, intents_batch>>
rrLoc == <<last_utter_intent, responses_intents, filtered_intents_idx,
           last_utter_sentiment, responses_sentiment, filtered_sentiment_idx,
           idx, candidates, scores, chosen_index>>
rrVars == <<rrIn, pc, err, reshaped_sentiment, reshaped_intents, i, rrLoc,
            responses_batch, responses_preds>>

\* The state of a CosineSimilarityClassifier and of its last call.
VARIABLES
    top_n,              \* self.top_n
    x_train_features,   \* self.x_train_features
    y_train,            \* self.y_train
    cpc,                \* "call", "idle", "returned", "raised"
    op,                 \* the method that ran last
    arg_kinds,          \* fit: the representation of each vector of x_train_vects
    q_vects,            \* __call__: its argument
    cerr,               \* the exception raised, "" when none
    cos_similarities,
    y_labels,
    label_max,          \* labels_scores before the normalisation
    labels_scores,      \* labels_scores after the normalisation
    answer_ids,
    answers,
    answer_scores,      \* the list `scores` that is returned
    installed           \* history: some fit or load has completed

clsModel == <<x_train_features, y_train>>
clsOut == <<cos_similarities, y_labels, label_max, labels_scores, answer_ids,
            answers, answer_scores>>
clsVars == <<top_n, clsModel, cpc, op, arg_kinds, q_vects, cerr, clsOut, installed>>

\* The tag vocabularies of the docstring, each with one tag outside it.
Intents == {"declarative", "interrogative", "imperative", "unknown"}
Sentiments == {"neutral", "positive", "skip", "speech", "negative", "unknown"}

\* Candidate texts and base scores are opaque to the re-ranker: distinct tokens.
ResponseText(e, j) == <<"response", e, j>>
BaseScore(e, j) == <<"score", e, j>>

\* batch_size = self.num_context_turns + len(top_responses_batch[0])
BatchSize == num_context_turns + Len(top_responses_batch[1])

\* The reshape loop: one slice of width batch_size per full group of the flat list.
Reshape(flat, batch_size) ==
    [g \in 1..(Len(flat) \div batch_size) |->
        Slice(flat, (g - 1) * batch_size, g * batch_size)]

\* FilterIntents with the "imperative" branch as loose as the "interrogative" one.
FilterIntentsLoose(last, resp, n) ==
    IF last \in {"interrogative", "imperative"}
    THEN AscList({j \in 0..(n - 1) : resp[j + 1] \in {"declarative", "imperative"}})
    ELSE AscList(0..(n - 1))

\* filtered_intents_idx of one element with n candidates.
FilterIntents(last, resp, n) ==
    IF last = "interrogative"
    THEN AscList({j \in 0..(n - 1) : resp[j + 1] \in {"declarative", "imperative"}})
    ELSE IF last = "imperative"
    THEN AscList({j \in 0..(n - 1) : resp[j + 1] \in {"declarative"}})
    ELSE AscList(0..(n - 1))

\* FilterSentiment without the branches on the last turn: the default rule only.
FilterSentimentDefaultOnly(last, resp, n) ==
    AscList({j \in 0..(n - 1) : resp[j + 1] \notin {"negative", "skip"}})

\* filtered_sentiment_idx of one element with n candidates.
FilterSentiment(last, resp, n) ==
    IF last = "negative"
    THEN AscList({j \in 0..(n - 1) : resp[j + 1] \notin {"negative", "skip"}})
    ELSE IF last = "neutral"
    THEN AscList({j \in 0..(n - 1) : resp[j + 1] \in {"neutral", "positive"}})
    ELSE IF last = "speech"
    THEN AscList({j \in 0..(n - 1) : resp[j + 1] = "speech"})
    ELSE IF last = "positive"
    THEN AscList({j \in 0..(n - 1) : resp[j + 1] = "positive"})
    ELSE AscList({j \in 0..(n - 1) : resp[j + 1] \notin {"negative", "skip"}})

\* idx = list(set(filtered_intents_idx).intersection(set(filtered_sentiment_idx)));
\* CPython iterates a set of small non-negative ints in ascending order.
Intersect(fi, fs) == AscList(Range(fi) \cap Range(fs))

\* PoolIdx with an empty intersection falling straight through to the full list.
PoolIdxFullFallback(ix, fi, fs, n) ==
    IF Len(ix) > 0 THEN ix ELSE AscList(0..(n - 1))

\* The index list the pool is built from: the if/elif/else chain of the combination.
PoolIdx(ix, fi, fs, n) ==
    IF Len(ix) > 0 THEN ix
    ELSE IF Len(fs) > 0 THEN fs
    ELSE IF Len(fi) > 0 THEN fi
    ELSE AscList(0..(n - 1))

\* [row[j] for j in ixs]
Pick(row, ixs) == [k \in 1..Len(ixs) |-> row[ixs[k] + 1]]

\* candidates = [top_responses_batch[i][j] for j in ...] (the whole row in the fallback)
PoolCandidates(e, pool) == Pick(top_responses_batch[e + 1], pool)

\* PoolScores that forgets the filter: the element's whole score list.
ScoresUnfiltered(e, pool) == top_scores_batch[e + 1]

\* scores = [top_scores_batch[i][j] for j in ...], over the same index list
PoolScores(e, pool) == Pick(top_scores_batch[e + 1], pool)

\* The element whose loop body runs next.
NextElem == i + 1

\* Lines 51-57: batch_size and the two reshaped lists.
Call ==
    /\ pc = "call"
    /\ reshaped_sentiment' = Reshape(sentiment_batch, BatchSize)
    /\ reshaped_intents' = Reshape(intents_batch, BatchSize)
    /\ pc' = "loop"
    /\ UNCHANGED <<rrIn, err, i, rrLoc, responses_batch, responses_preds>>
    /\ UNCHANGED clsVars

\* The subscripts of the loop body that can be out of range:
\* reshaped_intents[i] and responses_sentiment[j] for j in range(len(top_responses_batch[i])).
BodyRaises(e) ==
    IF e + 1 > Len(reshaped_intents) THEN TRUE
    ELSE Len(top_responses_batch[e + 1])
            > Len(reshaped_sentiment[e + 1]) - num_context_turns

\* Lines 62-132: one pass of the loop body, for element NextElem.
Iterate ==
    /\ pc = "loop"
    /\ NextElem < Len(top_responses_batch)
    /\ ~BodyRaises(NextElem)
    /\ i' = NextElem
    /\ last_utter_intent' = reshaped_intents[i' + 1][num_context_turns]
    /\ responses_intents' = Slice(reshaped_intents[i' + 1], num_context_turns,
                                  Len(reshaped_intents[i' + 1]))
    /\ filtered_intents_idx' = FilterIntents(last_utter_intent', responses_intents',
                                             Len(top_responses_batch[i' + 1]))
    /\ last_utter_sentiment' = reshaped_sentiment[i' + 1][num_context_turns]
    /\ responses_sentiment' = Slice(reshaped_sentiment[i' + 1], num_context_turns,
                                    Len(reshaped_sentiment[i' + 1]))
    /\ filtered_sentiment_idx' = FilterSentiment(last_utter_sentiment',
                                                 responses_sentiment',
                                                 Len(top_responses_batch[i' + 1]))
    /\ idx' = Intersect(filtered_intents_idx', filtered_sentiment_idx')
    /\ LET pool == PoolIdx(idx', filtered_intents_idx', filtered_sentiment_idx',
                           Len(top_responses_batch[i' + 1]))
       IN  /\ candidates' = PoolCandidates(i', pool)
           /\ scores' = PoolScores(i', pool)
    /\ Len(candidates') > 0
    \* np.random.choice(range(len(candidates)), p=w): every w[k] is positive
    /\ \E k \in 0..(Len(candidates') - 1) :
         /\ chosen_index' = k
         /\ responses_batch' = Append(responses_batch, candidates'[k + 1])
         /\ responses_preds' = Append(responses_preds, scores'[k + 1])
    /\ UNCHANGED <<rrIn, pc, err, reshaped_sentiment, reshaped_intents>>
    /\ UNCHANGED clsVars

\* The loop body raising IndexError: the call ends without a result.
IterateRaise ==
    /\ pc = "loop"
    /\ NextElem < Len(top_responses_batch)
    /\ BodyRaises(NextElem)
    /\ i' = NextElem
    /\ pc' = "error"
    /\ err' = "IndexError"
    /\ UNCHANGED <<rrIn, reshaped_sentiment, reshaped_intents, rrLoc,
                   responses_batch, responses_preds>>
    /\ UNCHANGED clsVars

\* Line 134: return responses_batch, responses_preds
Return ==
    /\ pc = "loop"
    /\ NextElem = Len(top_responses_batch)
    /\ pc' = "done"
    /\ UNCHANGED <<rrIn, err, reshaped_sentiment, reshaped_intents, i, rrLoc,
                   responses_batch, responses_preds>>
    /\ UNCHANGED clsVars

(***************************************************************************)
(* CosineSimilarityClassifier                                              *)
(*                                                                         *)
(* A vector is a pair of integers; a stored or queried matrix is a record  *)
(* [kind, rows] with kind "dense" (numpy), "sparse" (csr_matrix), "none"   *)
(* (None entries), "other" (any other object) or "unset" (the attribute    *)
(* was never assigned).  Labels are integers, ordered as np.unique orders  *)
(* the label strings.                                                      *)
(***************************************************************************)
Unset == [kind |-> "unset", rows |-> << >>]

Dot(u, v) == u[1] * v[1] + u[2] * v[2]

\* linalg.norm / sparse_norm of one row; the vectors of the model have integer norms.
Norm(v) == CHOOSE n \in 0..Dot(v, v) : n * n = Dot(v, v)

RECURSIVE NormsExcept(_, _, _)
NormsExcept(rows, t, k) ==
    IF k > Len(rows) THEN 1
    ELSE (IF k = t THEN 1 ELSE Norm(rows[k])) * NormsExcept(rows, t, k + 1)

\* cos_similarities = q_vects.dot(x_train_features.T) / norm, where norm is the norm
\* of the whole query matrix times the norm of each training row.  Entry [a][t] is
\* held as the integer  dot(q_a, x_t) * prod(norm(x_s) : s # t),  that is the code's
\* value times the positive factor  norm(q_vects) * prod(norm(x_s)),  which is the
\* same for every entry of one call.
CosSimilarities(q, x) ==
    [a \in 1..Len(q) |-> [t \in 1..Len(x) |-> Dot(q[a], x[t]) * NormsExcept(x, t, 1)]]

\* y_labels = np.unique(self.y_train): the distinct labels, sorted.
Unique(y) == AscList(Range(y))

Max(S) == CHOOSE m \in S : \A z \in S : z <= m

\* LabelsScores without the "if value == label" filter.
LabelsScoresAnyLabel(cos, y, yl) ==
    [a \in 1..Len(cos) |->
        [l \in 1..Len(yl) |-> Max({cos[a][t] : t \in 1..Len(y)})]]

\* labels_scores[:, i] = np.max([cos_similarities[:, t] for t, value in
\*                               enumerate(self.y_train) if value == label], axis=0)
LabelsScores(cos, y, yl) ==
    [a \in 1..Len(cos) |->
        [l \in 1..Len(yl) |-> Max({cos[a][t] : t \in {u \in 1..Len(y) : y[u] = yl[l]}})]]

\* np.sum(labels_scores, axis=1)
RowSums(ls) == [a \in 1..Len(ls) |-> SumSeq(ls[a])]

\* A quotient n/d of IEEE arithmetic as the pair <<n, d>> with n >= 0, d >= 0:
\* d = 0 is inf when n > 0 and nan when n = 0.
IsNaN(f) == f[1] = 0 /\ f[2] = 0
IsInf(f) == f[1] # 0 /\ f[2] = 0
Rank(f) == IF f[2] # 0 THEN 0 ELSE IF f[1] # 0 THEN 1 ELSE 2

\* The order argsort sorts by: finite values by size, then inf, then nan.
Less(f, g) ==
    IF Rank(f) # Rank(g) THEN Rank(f) < Rank(g)
    ELSE Rank(f) = 0 /\ f[1] * g[2] < g[1] * f[2]

\* Whether labels_scores (Q x L) / np.sum(labels_scores, axis=1) (Q,) broadcasts.
Broadcasts(nq, nl) == nq = nl \/ nq = 1 \/ nl = 1

\* labels_scores = labels_scores / np.sum(labels_scores, axis=1): numpy aligns the
\* (Q,) vector of row sums with the LAST axis of the (Q, L) matrix.
Normalize(ls, nl) ==
    LET nq == Len(ls)
        sums == RowSums(ls)
        cols == IF nl > nq THEN nl ELSE nq
    IN  [a \in 1..nq |->
            [c \in 1..cols |->
                <<ls[a][IF nl = 1 THEN 1 ELSE c], sums[IF nq = 1 THEN 1 ELSE c]>>]]

\* np.argsort of one row (ascending; for rows this short numpy's default sort is an
\* insertion sort, which keeps equal keys in index order): the 0-based column ids.
Argsort(row) ==
    LET n == Len(row)
        pos == [c \in 1..n |-> Cardinality({d \in 1..n :
                    Less(row[d], row[c]) \/ (~Less(row[c], row[d]) /\ d < c)})]
    IN  [k \in 1..n |-> (CHOOSE c \in 1..n : pos[c] = k - 1) - 1]

\* TopIds without the reversal: the last n ids in argsort's ascending order.
TopIdsAscending(sorted, n) ==
    LET m == IF n < Len(sorted) THEN n ELSE Len(sorted)
    IN  [k \in 1..m |-> sorted[Len(sorted) - m + k]]

\* np.argsort(labels_scores)[:, -self.top_n:], read back to front (answer_ids[i, ::-1])
TopIds(sorted, n) ==
    LET m == IF n < Len(sorted) THEN n ELSE Len(sorted)
    IN  [k \in 1..m |-> sorted[Len(sorted) + 1 - k]]

\* np.round(x, 2) in hundredths (round half to even); "inf" and "nan" stay.
Round2(f) ==
    IF IsNaN(f) THEN "nan"
    ELSE IF IsInf(f) THEN "inf"
    ELSE LET q == (100 * f[1]) \div f[2]
             r == (100 * f[1]) % f[2]
         IN  IF 2 * r < f[2] THEN q
             ELSE IF 2 * r > f[2] THEN q + 1
             ELSE IF q % 2 = 0 THEN q ELSE q + 1

\* The exception __call__ raises before the label loop, "" when none.
CallError(q) ==
    IF Len(q.rows) = 0 THEN "IndexError"                    \* q_vects[0]
    ELSE IF q.kind = "other" THEN "NotImplementedError"
    ELSE IF x_train_features.kind = "unset" THEN "AttributeError"
    ELSE IF q.kind = "none"
    THEN (IF x_train_features.kind = "sparse"
          THEN "TypeError"                                  \* len(csr_matrix)
          ELSE "IndexError")                                \* cos_similarities[:, i]
    ELSE IF q.kind # x_train_features.kind THEN "TypeError" \* norm of the other kind
    ELSE ""

NoOut ==
    /\ cos_similarities' = << >>
    /\ y_labels' = << >>
    /\ label_max' = << >>
    /\ labels_scores' = << >>
    /\ answer_ids' = << >>
    /\ answers' = << >>
    /\ answer_scores' = << >>

\* Lines 64-93: __call__(q).
ClassifyBody(q) ==
    /\ op' = "classify"
    /\ q_vects' = q
    /\ arg_kinds' = << >>
    /\ UNCHANGED <<top_n, clsModel, installed>>
    /\ UNCHANGED rrVars
    /\ IF CallError(q) # ""
       THEN /\ cpc' = "raised"
            /\ cerr' = CallError(q)
            /\ NoOut
       ELSE /\ cos_similarities' = CosSimilarities(q.rows, x_train_features.rows)
            /\ y_labels' = Unique(y_train)
            /\ label_max' = LabelsScores(cos_similarities', y_train, y_labels')
            /\ IF ~Broadcasts(Len(label_max'), Len(y_labels'))
               THEN /\ cpc' = "raised"
                    /\ cerr' = "ValueError"
                    /\ labels_scores' = << >>
                    /\ answer_ids' = << >>
                    /\ answers' = << >>
                    /\ answer_scores' = << >>
               ELSE /\ labels_scores' = Normalize(label_max', Len(y_labels'))
                    /\ answer_ids' = [a \in 1..Len(labels_scores') |->
                                        TopIds(Argsort(labels_scores'[a]), top_n)]
                    /\ IF \E a \in 1..Len(answer_ids') :
                            \E k \in 1..Len(answer_ids'[a]) :
                                answer_ids'[a][k] >= Len(y_labels')
                       THEN /\ cpc' = "raised"               \* y_labels[id]
                            /\ cerr' = "IndexError"
                            /\ answers' = << >>
                            /\ answer_scores' = << >>
                       ELSE /\ cpc' = "returned"
                            /\ cerr' = ""
                            /\ answers' = [a \in 1..Len(answer_ids') |->
                                  [k \in 1..Len(answer_ids'[a]) |->
                                      y_labels'[answer_ids'[a][k] + 1]]]
                            /\ answer_scores' = [a \in 1..Len(answer_ids') |->
                                  [k \in 1..Len(answer_ids'[a]) |->
                                      Round2(labels_scores'[a][answer_ids'[a][k] + 1])]]

\* FitError with the empty list falling into the unsupported-type branch.
FitErrorEmptyAsType(kinds) ==
    IF Len(kinds) = 0 \/ kinds[1] \notin {"sparse", "dense"} THEN "NotImplementedError"
    ELSE ""

\* The exception fit raises by its own checks, "" when none.
FitError(kinds) ==
    IF Len(kinds) = 0 THEN "ValueError"
    ELSE IF kinds[1] \notin {"sparse", "dense"} THEN "NotImplementedError"
    ELSE ""

\* Whether every vector has the representation of the first one.
Homogeneous(kinds) == \A k \in 1..Len(kinds) : kinds[k] = kinds[1]

\* What vstack / np.vstack can do with the list: only the first vector was looked
\* at, so a list with another representation further on reaches the library call,
\* which either coerces the odd vectors ("stored") or raises its own exception.
StackOutcomes(kinds) ==
    IF Homogeneous(kinds) THEN {"stored"}
    ELSE {"stored", IF kinds[1] = "dense" THEN "ValueError" ELSE "TypeError"}

ClearCall ==
    /\ q_vects' = [kind |-> "none", rows |-> << >>]
    /\ NoOut

\* Lines 105-115: fit(x_train_vects, y_train); vs[k] = [kind, vec].
Fit(vs, labels) ==
    LET kinds == [k \in 1..Len(vs) |-> vs[k].kind]
    IN  /\ cpc = "idle"
        /\ UNCHANGED rrVars
        /\ op' = "fit"
        /\ arg_kinds' = kinds
        /\ ClearCall
        /\ UNCHANGED top_n
        /\ IF FitError(kinds) # ""
           THEN /\ cpc' = "raised"
                /\ cerr' = FitError(kinds)
                /\ UNCHANGED <<clsModel, installed>>
           ELSE \E out \in StackOutcomes(kinds) :
                  IF out = "stored"
                  THEN /\ x_train_features' =
                            [kind |-> kinds[1], rows |-> [k \in 1..Len(vs) |-> vs[k].vec]]
                       /\ y_train' = labels
                       /\ installed' = TRUE
                       /\ cpc' = "returned"
                       /\ cerr' = ""
                  ELSE /\ cpc' = "raised"
                       /\ cerr' = out
                       /\ UNCHANGED <<clsModel, installed>>

\* Lines 124-127: load(); the pickle at load_path holds a saved pair (st) or is missing.
Load(st) ==
    /\ cpc = "idle"
    /\ UNCHANGED rrVars
    /\ op' = "load"
    /\ arg_kinds' = << >>
    /\ ClearCall
    /\ x_train_features' = st.x
    /\ y_train' = st.y
    /\ installed' = TRUE
    /\ cpc' = "returned"
    /\ cerr' = ""
    /\ UNCHANGED top_n

LoadRaise ==
    /\ cpc = "idle"
    /\ UNCHANGED rrVars
    /\ op' = "load"
    /\ arg_kinds' = << >>
    /\ ClearCall
    /\ cpc' = "raised"
    /\ cerr' = "FileNotFoundError"
    /\ UNCHANGED <<top_n, clsModel, installed>>

\* __call__ on an instance that is between calls.
Classify(q) ==
    /\ cpc = "idle"
    /\ ClassifyBody(q)

\* __call__ on the arguments the initial state holds.
ClassifyCall ==
    /\ cpc = "call"
    /\ ClassifyBody(q_vects)

\* The caller takes the result, or handles the exception, and goes on.
Resume ==
    /\ cpc \in {"returned", "raised"}
    /\ UNCHANGED rrVars
    /\ cpc' = "idle"
    /\ op' = ""
    /\ arg_kinds' = << >>
    /\ cerr' = ""
    /\ ClearCall
    /\ UNCHANGED <<top_n, clsModel, installed>>

(***************************************************************************)
(* Arguments of a call.  Tags are (sentiment, intent) pairs per position   *)
(* of the flat lists; an element with c candidates owns                    *)
(* num_context_turns + c consecutive positions.                            *)
(***************************************************************************)
\* One-element batches: every sentiment against two intents, and every intent
\* against two sentiments; the context turns before the last one carry one fixed tag.
SentimentRich == Sentiments \X {"declarative", "interrogative"}
IntentRich == {"neutral", "negative"} \X Intents
ContextFill == {<<"neutral", "declarative">>}

\* Several-element batches: periodic tag streams over two tag pairs.
StreamTags == <<(<<"neutral", "unknown">>), (<<"negative", "interrogative">>)>>

Candidates(lens) ==
    [e \in 1..Len(lens) |-> [j \in 1..lens[e] |-> ResponseText(e - 1, j - 1)]]
Scores(lens) ==
    [e \in 1..Len(lens) |-> [j \in 1..lens[e] |-> BaseScore(e - 1, j - 1)]]

RerankArgs(n, lens, flat) ==
    /\ num_context_turns = n
    /\ top_responses_batch = Candidates(lens)
    /\ top_scores_batch = Scores(lens)
    /\ sentiment_batch = [p \in 1..Len(flat) |-> flat[p][1]]
    /\ intents_batch = [p \in 1..Len(flat) |-> flat[p][2]]

RerankStart ==
    /\ pc = "call"
    /\ err = ""
    /\ reshaped_sentiment = << >>
    /\ reshaped_intents = << >>
    /\ i = -1
    /\ last_utter_intent = ""
    /\ responses_intents = << >>
    /\ filtered_intents_idx = << >>
    /\ last_utter_sentiment = ""
    /\ responses_sentiment = << >>
    /\ filtered_sentiment_idx = << >>
    /\ idx = << >>
    /\ candidates = << >>
    /\ scores = << >>
    /\ chosen_index = -1
    /\ responses_batch = << >>
    /\ responses_preds = << >>

InitSingle ==
    \E n \in 1..MaxContextTurns, c \in 1..MaxCands, fam \in {SentimentRich, IntentRich} :
        \E pre \in [1..(n - 1) -> ContextFill], t \in [1..(c + 1) -> fam] :
            RerankArgs(n, <<c>>, pre \o t)

InitBatch ==
    \E n \in 1..MaxContextTurns, b \in 2..MaxBatch :
        \E lens \in [1..b -> 1..MaxCands], motif \in [0..(MotifLen - 1) -> 1..2] :
            RerankArgs(n, lens,
                       [p \in 1..(b * n + SumSeq(lens)) |->
                            StreamTags[motif[(p - 1) % MotifLen]]])

\* The component that a specification does not exercise stays as constructed.
RerankOff ==
    /\ RerankStart
    /\ num_context_turns = 10
    /\ top_responses_batch = << >>
    /\ top_scores_batch = << >>
    /\ sentiment_batch = << >>
    /\ intents_batch = << >>

ClassifierFresh ==
    /\ x_train_features = Unset
    /\ y_train = << >>
    /\ op = ""
    /\ arg_kinds = << >>
    /\ q_vects = [kind |-> "none", rows |-> << >>]
    /\ cerr = ""
    /\ cos_similarities = << >>
    /\ y_labels = << >>
    /\ label_max = << >>
    /\ labels_scores = << >>
    /\ answer_ids = << >>
    /\ answers = << >>
    /\ answer_scores = << >>
    /\ installed = FALSE

ClassifierOff == ClassifierFresh /\ top_n = 1 /\ cpc = "idle"

vars == <<rrVars, clsVars>>

(***************************************************************************)
(* The re-ranker: one call on each argument tuple.                         *)
(***************************************************************************)
InitRerank == RerankStart /\ (InitSingle \/ InitBatch) /\ ClassifierOff

NextRerank == Call \/ Iterate \/ IterateRaise \/ Return

SpecRerank == InitRerank /\ [][NextRerank]_vars

(***************************************************************************)
(* The classifier's __call__ as a function of the fitted pair, top_n and   *)
(* the queries.                                                            *)
(***************************************************************************)
TrainVecs == {<<1, 0>>, <<3, 4>>}
QueryVecs == {<<1, 0>>, <<0, 1>>}
Labels == {1, 2, 3}

InitClassify ==
    /\ RerankOff
    /\ cpc = "call"
    /\ op = ""
    /\ arg_kinds = << >>
    /\ cerr = ""
    /\ cos_similarities = << >>
    /\ y_labels = << >>
    /\ label_max = << >>
    /\ labels_scores = << >>
    /\ answer_ids = << >>
    /\ answers = << >>
    /\ answer_scores = << >>
    /\ installed = TRUE
    /\ top_n \in 1..MaxTopN
    /\ \E t \in 1..MaxTrain, nq \in 1..MaxQueries :
        \E rows \in [1..t -> TrainVecs], y \in [1..t -> Labels], q \in [1..nq -> QueryVecs] :
            /\ x_train_features = [kind |-> "dense", rows |-> rows]
            /\ y_train = y
            /\ q_vects = [kind |-> "dense", rows |-> q]

NextClassify == ClassifyCall

SpecClassify == InitClassify /\ [][NextClassify]_vars

(***************************************************************************)
(* The classifier's life: an instance constructed in train mode, then any  *)
(* sequence of fit, load and __call__.                                     *)
(***************************************************************************)
LifeLabels == {1, 2}
Kinds == {"dense", "sparse", "other"}

FitArgs(n) == [1..n -> [kind : Kinds, vec : TrainVecs]]

\* What a pickle written by save() can hold: a pair that some fit installed.
Saved ==
    UNION {[x : [kind : {"dense", "sparse"}, rows : [1..n -> TrainVecs]],
            y : [1..n -> LifeLabels]] : n \in 1..MaxFitLen}

Queries ==
    UNION {[kind : {"dense", "sparse"}, rows : [1..n -> TrainVecs]] : n \in 1..MaxQueries}
    \cup {[kind |-> "none", rows |-> <<0>>], [kind |-> "other", rows |-> <<0>>],
          [kind |-> "dense", rows |-> << >>]}

InitLife ==
    /\ RerankOff
    /\ ClassifierFresh
    /\ cpc = "idle"
    /\ top_n \in 1..MaxTopN

NextLife ==
    \/ \E n \in 0..MaxFitLen : \E vs \in FitArgs(n), y \in [1..n -> LifeLabels] :
            Fit(vs, y)
    \/ \E st \in Saved : Load(st)
    \/ LoadRaise
    \/ \E q \in Queries : Classify(q)
    \/ Resume

SpecLife == InitLife /\ [][NextLife]_vars

(***************************************************************************)
(* Properties of the re-ranker (SpecRerank).                               *)
(***************************************************************************)
\* The locals describe the loop body of element i.
BodyRan == i >= 0 /\ pc \in {"loop", "done"}

\* The pool of element i is the index set S: candidates and scores are the
\* element's responses and scores at exactly the indices of S.
PoolIs(S) ==
    /\ Len(candidates) = Cardinality(S)
    /\ Len(scores) = Cardinality(S)
    /\ Range(candidates) = {top_responses_batch[i + 1][j + 1] : j \in S}
    /\ Range(scores) = {top_scores_batch[i + 1][j + 1] : j \in S}

\* C1: the pool is the intersection of the two filtered index sets when that is
\* non-empty, else the sentiment-filtered set when non-empty, else the
\* intent-filtered set when non-empty, else every candidate of the element.
C1_FallbackChain ==
    BodyRan =>
        LET FI == Range(filtered_intents_idx)
            FS == Range(filtered_sentiment_idx)
        IN  /\ Range(idx) = FI \cap FS
            /\ (FI \cap FS # {}) => PoolIs(FI \cap FS)
            /\ (FI \cap FS = {} /\ FS # {}) => PoolIs(FS)
            /\ (FS = {} /\ FI # {}) => PoolIs(FI)
            /\ (FS = {} /\ FI = {}) => PoolIs(0..(Len(top_responses_batch[i + 1]) - 1))

\* C1 witness: both filtered sets non-empty and disjoint, and the candidate list
\* has an index outside the sentiment-filtered set.
C1_DisjointWitness ==
    /\ BodyRan
    /\ filtered_intents_idx # << >>
    /\ filtered_sentiment_idx # << >>
    /\ Range(filtered_intents_idx) \cap Range(filtered_sentiment_idx) = {}
    /\ PoolIs(Range(filtered_sentiment_idx))

\* C2: the intent-filtered indices are those tagged declarative or imperative
\* after an interrogative last turn, those tagged declarative after an imperative
\* one, and all indices after any other last-turn intent.
C2_IntentFilter ==
    BodyRan =>
        LET all == 0..(Len(top_responses_batch[i + 1]) - 1)
            FI == Range(filtered_intents_idx)
        IN  /\ Len(filtered_intents_idx) = Cardinality(FI)
            /\ (last_utter_intent = "interrogative") =>
                    FI = {j \in all : responses_intents[j + 1] = "declarative"
                                      \/ responses_intents[j + 1] = "imperative"}
            /\ (last_utter_intent = "imperative") =>
                    FI = {j \in all : responses_intents[j + 1] = "declarative"}
            /\ (last_utter_intent \notin {"interrogative", "imperative"}) => FI = all

\* C2 witness: an imperative last turn with an imperative and a declarative candidate.
C2_ImperativeWitness ==
    /\ BodyRan
    /\ last_utter_intent = "imperative"
    /\ "imperative" \in Range(responses_intents)
    /\ filtered_intents_idx # << >>

\* C3: the sentiment-filtered indices are those tagged neutral or positive after
\* a neutral last turn, speech after speech, positive after positive, and those
\* tagged neither negative nor skip after negative or any other last-turn sentiment.
C3_SentimentFilter ==
    BodyRan =>
        LET all == 0..(Len(top_responses_batch[i + 1]) - 1)
            FS == Range(filtered_sentiment_idx)
            tag(j) == responses_sentiment[j + 1]
        IN  /\ Len(filtered_sentiment_idx) = Cardinality(FS)
            /\ (last_utter_sentiment = "neutral") =>
                    FS = {j \in all : tag(j) = "neutral" \/ tag(j) = "positive"}
            /\ (last_utter_sentiment = "speech") => FS = {j \in all : tag(j) = "speech"}
            /\ (last_utter_sentiment = "positive") =>
                    FS = {j \in all : tag(j) = "positive"}
            /\ (last_utter_sentiment \notin {"neutral", "speech", "positive"}) =>
                    FS = {j \in all : tag(j) # "negative" /\ tag(j) # "skip"}

\* C3 witness: a neutral last turn with a speech candidate that is filtered out and
\* a positive one that is kept.
C3_NeutralWitness ==
    /\ BodyRan
    /\ last_utter_sentiment = "neutral"
    /\ "speech" \in Range(responses_sentiment)
    /\ "positive" \in Range(responses_sentiment)
    /\ Len(filtered_sentiment_idx) = 1

\* C4: a call that returns gives one response and one score per batch element;
\* each response is a candidate of its own element and the score is the base
\* score at the same index; the pair appended for element i is taken from one
\* position of that element's pool.
C4_OutputFromPool ==
    /\ Len(responses_batch) = Len(responses_preds)
    /\ \A e \in 1..Len(responses_batch) :
         \E j \in 1..Len(top_responses_batch[e]) :
            /\ responses_batch[e] = top_responses_batch[e][j]
            /\ responses_preds[e] = top_scores_batch[e][j]
    /\ BodyRan =>
         /\ Len(responses_batch) = i + 1
         /\ responses_batch[i + 1] = candidates[chosen_index + 1]
         /\ responses_preds[i + 1] = scores[chosen_index + 1]
    /\ (pc = "done") => Len(responses_batch) = Len(top_responses_batch)

\* C4 witness: a returned call on a batch of several elements in which a filter
\* removed the first candidate of the last element.
C4_ReturnedWitness ==
    /\ pc = "done"
    /\ Len(top_responses_batch) >= 2
    /\ Len(responses_batch) = Len(top_responses_batch)
    /\ Len(candidates) < Len(top_responses_batch[i + 1])
    /\ candidates[1] # top_responses_batch[i + 1][1]

\* The first position (0-based) of element e's own segment of the flat tag lists.
OwnOffset(e) ==
    SumSeq([k \in 1..e |-> num_context_turns + Len(top_responses_batch[k])])

\* C10: the tags the filters of element i used are those of the element's own
\* segment: the last-turn tag at position num_context_turns - 1 of the segment and
\* candidate j's tag at position num_context_turns + j.
C10_OwnSegment ==
    BodyRan =>
        LET off == OwnOffset(i)
        IN  /\ last_utter_intent = intents_batch[off + num_context_turns]
            /\ last_utter_sentiment = sentiment_batch[off + num_context_turns]
            /\ \A j \in 1..Len(top_responses_batch[i + 1]) :
                /\ responses_intents[j] = intents_batch[off + num_context_turns + j]
                /\ responses_sentiment[j] = sentiment_batch[off + num_context_turns + j]

(***************************************************************************)
(* Properties of the classifier's __call__ (SpecClassify).                 *)
(***************************************************************************)
\* C5: for every query whose aggregates have a non-zero sum, each normalised
\* score is the query's aggregate for the label divided by that query's own sum.
C5_RowNormalised ==
    (cpc = "returned") =>
        \A a \in 1..Len(label_max) :
            (SumSeq(label_max[a]) # 0) =>
                \A l \in 1..Len(y_labels) :
                    /\ labels_scores[a][l][2] # 0
                    /\ labels_scores[a][l][1] * SumSeq(label_max[a])
                         = label_max[a][l] * labels_scores[a][l][2]

\* C6: the aggregate of a query for a distinct label is the largest of the
\* query's similarities to the training vectors stored with exactly that label.
C6_MaxPerLabel ==
    (op = "classify" /\ label_max # << >>) =>
        /\ Range(y_labels) = Range(y_train)
        /\ Len(y_labels) = Cardinality(Range(y_train))
        /\ Len(label_max) = Len(q_vects.rows)
        /\ \A a \in 1..Len(label_max) :
            /\ Len(label_max[a]) = Len(y_labels)
            /\ \A l \in 1..Len(y_labels) :
                LET own == {t \in 1..Len(y_train) : y_train[t] = y_labels[l]}
                IN  /\ \E t \in own : cos_similarities[a][t] = label_max[a][l]
                    /\ \A t \in own : cos_similarities[a][t] <= label_max[a][l]

\* C6 witness: labels interleaved in training order (1, 2, 1) where the best
\* vector of label 1 is the later one and beats the vector of label 2 between them.
C6_InterleavedWitness ==
    /\ op = "classify"
    /\ label_max # << >>
    /\ y_train = <<1, 2, 1>>
    /\ cos_similarities[1][3] > cos_similarities[1][1]
    /\ cos_similarities[1][2] < cos_similarities[1][3]
    /\ label_max[1] = <<cos_similarities[1][3], cos_similarities[1][2]>>

\* Two equal scores (nan equals nothing).
Tie(f, g) == ~IsNaN(f) /\ ~IsNaN(g) /\ ~Less(f, g) /\ ~Less(g, f)

\* The answers of query a: min(top_n, number of labels) labels, those of
\* answer_ids, ranked by labels_scores from the highest down (nan, the score of a
\* zero sum, ranking above every number), no label left out that outranks a
\* returned one.
RankedAnswers(a) ==
    LET ids == answer_ids[a]
        row == labels_scores[a]
        nl == Len(y_labels)
    IN  /\ Len(answers[a]) = (IF top_n < nl THEN top_n ELSE nl)
        /\ Len(ids) = Len(answers[a])
        /\ Cardinality(Range(ids)) = Len(ids)
        /\ \A k \in 1..Len(ids) : answers[a][k] = y_labels[ids[k] + 1]
        /\ \A k, m \in 1..Len(ids) : (k < m) => ~Less(row[ids[k] + 1], row[ids[m] + 1])
        /\ \A k \in 1..Len(ids) : \A u \in (0..(nl - 1)) \ Range(ids) :
                ~Less(row[ids[k] + 1], row[u + 1])

\* Whether, among labels with tied scores, query a ranks (and keeps) the one with
\* the larger index first (larger = TRUE) or the one with the smaller index.
TieOrder(a, larger) ==
    LET ids == answer_ids[a]
        row == labels_scores[a]
        first(x, y) == IF larger THEN x > y ELSE x < y
    IN  /\ \A k, m \in 1..Len(ids) :
            (k < m /\ Tie(row[ids[k] + 1], row[ids[m] + 1])) => first(ids[k], ids[m])
        /\ \A k \in 1..Len(ids) : \A u \in (0..(Len(y_labels) - 1)) \ Range(ids) :
            Tie(row[ids[k] + 1], row[u + 1]) => first(ids[k], u)

C8_NeedsTrainingSet ==
    /\ []((op = "classify" /\ cpc = "returned") => installed)
    /\ [](~installed => x_train_features = Unset)
    /\ []((op = "fit" /\ arg_kinds = << >>) => (cpc = "raised" /\ cerr = "ValueError"))
    /\ [][(op' = "fit" /\ arg_kinds' = << >>) =>
            UNCHANGED <<x_train_features, y_train, installed>>]_vars

\* C8 witness: __call__ on dense queries raising on an instance on which no fit
\* or load has completed.
C8_UnfittedWitness ==
    /\ op = "classify"
    /\ q_vects.kind = "dense"
    /\ Len(q_vects.rows) > 0
    /\ ~installed
    /\ cpc = "raised"
    /\ cerr = "AttributeError"

\* C9: fit on a non-empty list that is not all dense or all sparse raises
\* NotImplementedError.
C9_MixedRejected ==
    (op = "fit" /\ arg_kinds # << >>
        /\ ~(Range(arg_kinds) = {"dense"} \/ Range(arg_kinds) = {"sparse"})) =>
        (cpc = "raised" /\ cerr = "NotImplementedError")

====
